---- MODULE Spec2Model ----
(***************************************************************************)
(* FiniteAssortativeMMSB (bnpy/allocmodel/relational): the local step, its *)
(* naive K x K oracle, the sufficient statistics and the evidence.         *)
(*                                                                         *)
(* Numbers.  float64 values are modelled by exact rationals <<n, d>> in    *)
(* lowest terms with d > 0, plus NaN == <<0, 0>> (the result of 0/0).      *)
(* A value of the log domain whose antilog is rational is written by its   *)
(* antilog: ElogPi[v][k] = q stands for log(q), so a sum of logs is a      *)
(* product and exp() returns the antilog (0 below the underflow limit).    *)
(* Quantities that multiply a probability by a log (the entropies, the     *)
(* data term) are exact linear combinations of logs of primes with         *)
(* rational coefficients: a function from primes to non-zero rationals.    *)
(* log 2, log 3, log 5, ... are linearly independent over the rationals,   *)
(* so two such values are equal as reals iff they are equal as functions.  *)
(***************************************************************************)
EXTENDS Integers, Sequences, FiniteSets, TLC

\* ------------------------------------------------------------- bounds
MaxK     == 2   \* communities: K in 1..MaxK
NumNodes == 2   \* V
MaxE     == 2   \* edges: E in 1..MaxE
MaxTheta == 2   \* theta[v][k] in 1..MaxTheta

\* ---------------------------------------------------------- rationals
Abs(x) == IF x < 0 THEN -x ELSE x

RECURSIVE Gcd(_, _)
Gcd(a, b) == IF b = 0 THEN a ELSE Gcd(b, a % b)

NaN == <<0, 0>>
IsNaN(a) == a[2] = 0

\* n/d in lowest terms, d > 0
Rat(n, d) ==
  LET g == Gcd(Abs(n), Abs(d))
      s == IF d < 0 THEN -1 ELSE 1
  IN  <<s * (n \div g), s * (d \div g)>>

Zero == <<0, 1>>
One  == <<1, 1>>
FromInt(i) == <<i, 1>>

RAdd(a, b) ==
  IF IsNaN(a) \/ IsNaN(b) THEN NaN
  ELSE LET g == Gcd(a[2], b[2])
       IN  Rat(a[1] * (b[2] \div g) + b[1] * (a[2] \div g), (a[2] \div g) * b[2])

RNeg(a) == IF IsNaN(a) THEN NaN ELSE <<-a[1], a[2]>>
RSub(a, b) == RAdd(a, RNeg(b))

RMul(a, b) ==
  IF IsNaN(a) \/ IsNaN(b) THEN NaN
  ELSE LET g1 == Gcd(Abs(a[1]), b[2])
           g2 == Gcd(Abs(b[1]), a[2])
       IN  IF a[1] = 0 \/ b[1] = 0 THEN Zero
           ELSE <<(a[1] \div g1) * (b[1] \div g2), (a[2] \div g2) * (b[2] \div g1)>>

\* float division: 0/0 is NaN (numpy warns and goes on); x/0 with x # 0 is
\* +-inf, which no call of the model produces (the divisor is never below
\* the dividend), so it is folded into NaN.
RDiv(a, b) ==
  IF IsNaN(a) \/ IsNaN(b) \/ b[1] = 0 THEN NaN
  ELSE RMul(a, Rat(b[2], b[1]))

\* comparisons with NaN are false, as in IEEE-754
RLeq(a, b) == ~IsNaN(a) /\ ~IsNaN(b) /\ a[1] * b[2] <= b[1] * a[2]
RLess(a, b) == ~IsNaN(a) /\ ~IsNaN(b) /\ a[1] * b[2] < b[1] * a[2]
RAbs(a) == IF IsNaN(a) THEN NaN ELSE <<Abs(a[1]), a[2]>>

\* np.maximum propagates NaN
RMax(a, b) == IF IsNaN(a) \/ IsNaN(b) THEN NaN ELSE IF RLeq(a, b) THEN b ELSE a

RECURSIVE RSumSeq(_)
RSumSeq(s) == IF s = <<>> THEN Zero ELSE RAdd(s[1], RSumSeq(Tail(s)))

RECURSIVE RMinSeq(_)
RMinSeq(s) ==
  IF Len(s) = 1 THEN s[1]
  ELSE LET m == RMinSeq(Tail(s))
       IN  IF IsNaN(s[1]) \/ IsNaN(m) THEN NaN ELSE IF RLeq(s[1], m) THEN s[1] ELSE m

\* --------------------------------------- linear combinations of logs
\* the smallest prime factor of n >= 2
SmallestFactor(n) ==
  IF n % 2 = 0 THEN 2
  ELSE IF n % 3 = 0 THEN 3
  ELSE LET r == CHOOSE i \in 1..46340 : (i + 1) * (i + 1) > n
           D == {p \in 5..r : n % p = 0}
       IN  IF D = {} THEN n ELSE CHOOSE p \in D : \A q \in D : p <= q

LZero == [p \in {} |-> Zero]
LNaN  == [p \in {0} |-> NaN]
LIsNaN(l) == 0 \in DOMAIN l

LGet(l, p) == IF p \in DOMAIN l THEN l[p] ELSE Zero

LTrim(f) == [p \in {q \in DOMAIN f : f[q] # Zero} |-> f[p]]

LAdd(a, b) ==
  IF LIsNaN(a) \/ LIsNaN(b) THEN LNaN
  ELSE LTrim([p \in DOMAIN a \cup DOMAIN b |-> RAdd(LGet(a, p), LGet(b, p))])

LScale(c, a) ==
  IF IsNaN(c) \/ LIsNaN(a) THEN LNaN
  ELSE LTrim([p \in DOMAIN a |-> RMul(c, a[p])])

LNeg(a) == LScale(FromInt(-1), a)
LSub(a, b) == LAdd(a, LNeg(b))

RECURSIVE LogInt(_)
LogInt(n) ==
  IF n = 1 THEN LZero
  ELSE LET p == SmallestFactor(n)
       IN  LAdd([q \in {p} |-> One], LogInt(n \div p))

\* log of a rational: log(0) = -inf and log(NaN) = NaN; both only arise next
\* to a NaN responsibility and are folded into NaN.
Log(q) ==
  IF IsNaN(q) \/ q[1] <= 0 THEN LNaN
  ELSE LSub(LogInt(q[1]), LogInt(q[2]))

RECURSIVE LSumSeq(_)
LSumSeq(s) == IF s = <<>> THEN LZero ELSE LAdd(s[1], LSumSeq(Tail(s)))

\* ----------------------------------------------------- float64 limits
\* The source floors resp at 1e-100 (line 116) and np.exp underflows to 0
\* near exp(-745).  Both are scaled to the model's number range; the order
\* underflow limit < floor < ordinary probabilities is the source's.
FloorDen  == 16
RespFloor == Rat(1, FloorDen)
ExpMinDen == 65536
Exp(q) == IF RLess(q, Rat(1, ExpMinDen)) THEN Zero ELSE q

\* np.allclose(a, b): |a - b| <= atol + rtol * |b| with numpy's defaults
\* rtol = 1e-5 and atol = 1e-8; False on NaN.  b is an integer in every call.
\* |a - b| = n/d <= T/10^8 with T = 1 + 1000*|b| is decided without forming
\* n * 10^8.
AllCloseInt(a, b) ==
  IF IsNaN(a) THEN FALSE
  ELSE LET diff == RAbs(RSub(a, FromInt(b)))
           T    == 1 + 1000 * Abs(b)
       IN  \/ diff[1] = 0
           \/ /\ diff[2] \div diff[1] >= 100000000 \div T
              /\ diff[1] * (100000000 \div diff[2]) <= T

\* ------------------------------------------------------------- inputs
Nodes == 1..NumNodes

\* scipy's digamma on the integers the model draws theta from.  exp(digamma(n))
\* lies within 0.07 of n - 1/2 for every n >= 1; the model takes
\* digamma(n) = log((2n - 1)/2), which keeps digamma increasing and
\* sum_k exp(ElogPi[v][k]) < 1 for K >= 2, = 1 for K = 1.
digamma(n) == Rat(2 * n - 1, 2)

RECURSIVE SumInts(_)
SumInts(s) == IF s = <<>> THEN 0 ELSE s[1] + SumInts(Tail(s))

\* theta: V x K positive Dirichlet parameters
ThetaInputs(K) ==
  { [v \in Nodes |-> [k \in 1..K |-> 1]],
    [v \in Nodes |-> [k \in 1..K |-> 1 + ((K - k) % MaxTheta)]],
    [v \in Nodes |-> [k \in 1..K |-> 1 + ((v + k) % MaxTheta)]] }

EpsilonInputs == { Rat(1, 2), Rat(1, 16) }

\* rows of E_log_soft_ev, written by their antilogs: 0 everywhere; -(k-1) log 2;
\* one entry far below the others; every entry below the underflow limit of exp
TinyDen  == 64
UnderDen == 1048576
NumEvRows == 4
EvRow(i, K0) ==
  [k \in 1..K0 |->
     CASE i = 1 -> One
       [] i = 2 -> Rat(1, 2 ^ (k - 1))
       [] i = 3 -> IF k = K0 THEN Rat(1, TinyDen) ELSE One
       [] OTHER -> Rat(1, UnderDen)]

\* one edge of the dataset: source, receiver, its binary observation (D = 1)
\* and the number of its row of E_log_soft_ev.  The first edge is free; each
\* further edge turns the one before it (receiver becomes source, the
\* observation flips, the next row), which keeps the number of datasets small
\* and still pairs every row with every other.
EdgeInputs == [s : Nodes, t : Nodes, x : {0, 1}, ev : 1..NumEvRows]
NextEdge(g) ==
  [s |-> g.t, t |-> (g.s % NumNodes) + 1, x |-> 1 - g.x, ev |-> (g.ev % NumEvRows) + 1]
RECURSIVE EdgeList(_, _)
EdgeList(g, n) == IF n = 0 THEN <<>> ELSE <<g>> \o EdgeList(NextEdge(g), n - 1)

VARIABLES
  K,        \* self.K
  theta,    \* self.theta, V x K
  epsilon,  \* self.epsilon
  Data,     \* GraphData: edges (E x 2), X (E x 1), nNodes
  LP,       \* the dict handed to calc_local_params
  LPnaive,  \* the dict handed to _calc_local_params_Naive
  LPresp,   \* a dict built by the caller: resp and resp_bg only
  SS,       \* SS[f]: the bag returned for doPrecompEntropy = f, if any
  ssOf,     \* which dict the bags were built from
  evid,     \* evid[f]: calc_evidence on SS[f], if computed
  err,      \* exception raised by the last call, or "none"
  pc        \* position of the caller

vars == <<K, theta, epsilon, Data, LP, LPnaive, LPresp, SS, ssOf, evid, err, pc>>

nEdges == Len(Data.edges)
Edges  == 1..nEdges
Src(e) == Data.edges[e][1]
Rcv(e) == Data.edges[e][2]

\* The resp field holds a numpy array of either two or three dimensions: it
\* is written with its ndim.  Every other array has one shape only.
Arr(n, A) == [ndim |-> n, a |-> A]

\* arrays are sequences (of sequences), built once
Vec(n, F(_)) == [i \in 1..n |-> F(i)] \o <<>>
Mat(n, m, F(_, _)) == [i \in 1..n |-> [j \in 1..m |-> F(i, j)] \o <<>>] \o <<>>

MatAdd(A, B) == Mat(Len(A), Len(A[1]), LAMBDA i, j : RAdd(A[i][j], B[i][j]))
RowSum(M) == Vec(Len(M), LAMBDA i : RSumSeq(M[i]))
ColSum(M) == Vec(Len(M[1]), LAMBDA k : RSumSeq(Vec(Len(M), LAMBDA i : M[i][k])))
HasNaN(M) == \E i \in DOMAIN M : \E j \in DOMAIN M[i] : IsNaN(M[i][j])
MatSum(M) == RSumSeq(RowSum(M))

\* Data.getSparseSrcNodeMat() * M and Data.getSparseRcvNodeMat() * M: the
\* V x E incidence matrices of sources and of receivers times an E x K matrix
SrcNodeMat(M) ==
  Mat(NumNodes, Len(M[1]), LAMBDA v, k :
        RSumSeq(Vec(Len(M), LAMBDA e : IF Src(e) = v THEN M[e][k] ELSE Zero)))
RcvNodeMat(M) ==
  Mat(NumNodes, Len(M[1]), LAMBDA v, k :
        RSumSeq(Vec(Len(M), LAMBDA e : IF Rcv(e) = v THEN M[e][k] ELSE Zero)))

\* ------------------------------------------------- E_logPi (54-63)
\* digamma(theta) - digamma(sum_k theta), as antilogs
E_logPi ==
  Mat(NumNodes, K, LAMBDA v, k :
        RDiv(digamma(theta[v][k]), digamma(SumInts(theta[v]))))

\* logepsEvVec (86-89 and 317-320), as antilogs, D = 1
logepsEvVec ==
  Vec(nEdges, LAMBDA e : IF Data.X[e] = 1 THEN epsilon ELSE RSub(One, epsilon))

\* np.exp of a matrix of antilogs
ExpMat(M) == Mat(Len(M), Len(M[1]), LAMBDA i, j : Exp(M[i][j]))

\* ------------------------------------- calc_local_params (65-176)
\* the normaliser without the collapsed off-diagonal mass
normFgOnly(respRow, sumPi, sumPi_fg, epsEv) == RSumSeq(respRow)

\* respNormConst (112-113) of one edge: the sum of its exponentiated row plus
\* the collapsed off-diagonal mass
respNormConst(respRow, sumPi, sumPi_fg, epsEv) ==
  RAdd(RSumSeq(respRow), RMul(RSub(sumPi, sumPi_fg), epsEv))

\* one entry of resp after normalisation only
respNoFloor(r, Z) == RDiv(r, Z)

\* one entry of resp after normalisation (115) and floor (116)
respEntry(r, Z) == RMax(RDiv(r, Z), RespFloor)

\* resp_bg (120) of one edge
resp_bg(respRow) == RSub(One, RSumSeq(respRow))

\* the mass of one endpoint in k whatever the other endpoint is
bgEntryAll(epsEvNorm, piSelf, sumOther, piOther) ==
  RMul(RMul(epsEvNorm, piSelf), sumOther)

\* srcresp_bg / rcvresp_bg (130-135): the mass of one endpoint in k while the
\* other endpoint is elsewhere
bgEntry(epsEvNorm, piSelf, sumOther, piOther) ==
  RMul(RMul(epsEvNorm, piSelf), RSub(sumOther, piOther))

\* NodeStateCount_fg = nodeMat * resp (143-144, 183 and 205)
NodeStateCount_fg(R) == MatAdd(SrcNodeMat(R), RcvNodeMat(R))

\* the foreground counts of the first node only
firstRowOnly(NSCfg) == NSCfg[1]

\* N_fg = NodeStateCount_fg.sum(axis=0) (146, 207)
N_fg(NSCfg) == ColSum(NSCfg)

\* Ldata_bg = inner(resp_bg, logepsEvVec) (150)
Ldata_bg(Rbg, lev) ==
  LSumSeq(Vec(Len(Rbg), LAMBDA e : LScale(Rbg[e], Log(lev[e]))))

\* bnpy.util.NumericUtil.calcRlogR(R): sum_e R[e][k] * log R[e][k] per column
calcRlogR(R) ==
  Vec(Len(R[1]), LAMBDA k :
        LSumSeq(Vec(Len(R), LAMBDA e : LScale(R[e][k], Log(R[e][k])))))

\* Lentropy_fg = -calcRlogR(resp) (152)
NegVec(H) == Vec(Len(H), LAMBDA k : LNeg(H[k]))
Lentropy_fg(R) == NegVec(calcRlogR(R))

\* no cross-check at all
uncheckedEntropy(R) == TRUE

\* the cross-check of lines 154-158.  Its two sides differ only in floored
\* entries, each weighted by the floor, far inside np.allclose's atol; the
\* comparison is False exactly when a side holds a NaN.
LentropyCheck(R) == ~HasNaN(R)

\* Lentropy_bg without the term of the normalisers
entropyNoNorm(NSCbg, EL, Ldbg, Z, Rbg) ==
  LAdd(LNeg(LSumSeq(Vec(Len(NSCbg), LAMBDA v :
              LSumSeq(Vec(Len(NSCbg[v]), LAMBDA k :
                 LScale(NSCbg[v][k], Log(EL[v][k]))))))),
       LNeg(Ldbg))

\* Lentropy_bg (172-175)
Lentropy_bg(NSCbg, EL, Ldbg, Z, Rbg) ==
  LAdd(LAdd(LNeg(LSumSeq(Vec(Len(NSCbg), LAMBDA v :
                   LSumSeq(Vec(Len(NSCbg[v]), LAMBDA k :
                      LScale(NSCbg[v][k], Log(EL[v][k]))))))),
            LNeg(Ldbg)),
       LSumSeq(Vec(Len(Rbg), LAMBDA e : LScale(Rbg[e], Log(Z[e])))))

\* The body of calc_local_params, in the order of the source.  Each step takes
\* the record of the local variables assigned so far and adds its own.
\* 80-96: ElogPi, logepsEvVec, epsEvVec, and resp before normalisation
localsExp(lp0) ==
  [ElogPi |-> E_logPi,
   lev |-> logepsEvVec,
   epsEvVec |-> Vec(nEdges, LAMBDA e : Exp(logepsEvVec[e])),
   respExp |-> Mat(nEdges, K, LAMBDA e, k :
                 Exp(RMul(RMul(E_logPi[Src(e)][k], E_logPi[Rcv(e)][k]),
                          lp0.E_log_soft_ev[e][k]))),
   expElogPi |-> ExpMat(E_logPi),
   sumexpElogPi |-> RowSum(ExpMat(E_logPi))]

\* 98-113: sumPi_fg, sumPi and respNormConst
localsNorm(l) ==
  [Z |-> Vec(nEdges, LAMBDA e :
           respNormConst(l.respExp[e],
             RMul(l.sumexpElogPi[Src(e)], l.sumexpElogPi[Rcv(e)]),
             RSumSeq(Vec(K, LAMBDA k :
               RMul(l.expElogPi[Src(e)][k], l.expElogPi[Rcv(e)][k]))),
             l.epsEvVec[e]))] @@ l

\* 115-128: resp normalised and floored; epsEvVec normalised
localsResp(l) ==
  [R |-> Mat(nEdges, K, LAMBDA e, k : respEntry(l.respExp[e][k], l.Z[e])),
   epsEvNorm |-> Vec(nEdges, LAMBDA e : RDiv(l.epsEvVec[e], l.Z[e]))] @@ l

\* 120-144: resp_bg, srcresp_bg, rcvresp_bg and NodeStateCount_fg
localsBg(l) ==
  [Rbg |-> Vec(nEdges, LAMBDA e : resp_bg(l.R[e])),
   srcresp_bg |-> Mat(nEdges, K, LAMBDA e, k :
      bgEntry(l.epsEvNorm[e], l.expElogPi[Src(e)][k],
              l.sumexpElogPi[Rcv(e)], l.expElogPi[Rcv(e)][k])),
   rcvresp_bg |-> Mat(nEdges, K, LAMBDA e, k :
      bgEntry(l.epsEvNorm[e], l.expElogPi[Rcv(e)][k],
              l.sumexpElogPi[Src(e)], l.expElogPi[Src(e)][k])),
   NSCfg |-> NodeStateCount_fg(l.R)] @@ l

\* 139-150: NodeStateCount_bg and Ldata_bg
localsCounts(l) ==
  [NSCbg |-> MatAdd(SrcNodeMat(l.srcresp_bg), RcvNodeMat(l.rcvresp_bg)),
   Ldbg |-> Ldata_bg(l.Rbg, l.lev)] @@ l

\* the fields of LP written before the assert of line 158
fieldsUpTo158(l) ==
  [resp |-> Arr(2, l.R), resp_bg |-> l.Rbg,
   NodeStateCount |-> MatAdd(l.NSCbg, l.NSCfg),
   N_fg |-> N_fg(l.NSCfg),
   Ldata_bg |-> l.Ldbg,
   Lentropy_fg |-> Lentropy_fg(l.R)]

\* 154-176: the dict after the call, and whether the assert of line 158
\* raised; the fields written before the assert stay in the caller's dict.
localsReturn(lp0, l) ==
  IF LentropyCheck(l.R)
  THEN [raised |-> FALSE,
        lp |-> [Lentropy_bg |->
                  Lentropy_bg(l.NSCbg, l.ElogPi, l.Ldbg, l.Z, l.Rbg)]
               @@ fieldsUpTo158(l) @@ lp0]
  ELSE [raised |-> TRUE, lp |-> fieldsUpTo158(l) @@ lp0]

calc_local_params(lp0) ==
  localsReturn(lp0,
    localsCounts(localsBg(localsResp(localsNorm(localsExp(lp0))))))

\* ------------------------------ _calc_local_params_Naive (285-361)
\* resp[e][j][k] before normalisation (305-328): the diagonal cells carry
\* E_log_soft_ev, every off-diagonal cell carries logepsEvVec
naiveCell(ElogPi, lev, ev, e, j, k) ==
  Exp(RMul(RMul(ElogPi[Src(e)][j], ElogPi[Rcv(e)][k]),
           IF j = k THEN ev[e][k] ELSE lev[e]))

\* respNormConst = resp.sum(axis=(1,2)) (329)
naiveNormConst(cells) == RSumSeq(RowSum(cells))

Diag(T) == Mat(Len(T), Len(T[1]), LAMBDA e, k : T[e][k][k])
\* T.sum(axis=2) and T.sum(axis=1) of an E x K x K tensor
SumAxis2(T) == Mat(Len(T), Len(T[1]), LAMBDA e, j : RSumSeq(T[e][j]))
SumAxis1(T) ==
  Mat(Len(T), Len(T[1]), LAMBDA e, k :
        RSumSeq(Vec(Len(T[e]), LAMBDA j : T[e][j][k])))
MatSub(A, B) == Mat(Len(A), Len(A[1]), LAMBDA i, j : RSub(A[i][j], B[i][j]))

\* 305-328: the unnormalised E x K x K tensor
naiveCells(lp0) ==
  Vec(nEdges, LAMBDA e :
    Mat(K, K, LAMBDA j, k :
      naiveCell(E_logPi, logepsEvVec, lp0.E_log_soft_ev, e, j, k)))

\* 329-333: the normalisers and the normalised tensor
naiveNormalised(cells) ==
  [cells |-> cells,
   Zn |-> Vec(nEdges, LAMBDA e : naiveNormConst(cells[e])),
   T |-> Vec(nEdges, LAMBDA e :
           Mat(K, K, LAMBDA j, k :
             RDiv(cells[e][j][k], naiveNormConst(cells[e]))))]

\* 334-361: the fields of the returned dict
naiveFields(n) ==
  [resp |-> Arr(3, n.T),
   respNormConst |-> n.Zn,
   respNormConst_fg |-> RowSum(Diag(n.cells)),
   NodeStateCount_fg |-> MatAdd(SrcNodeMat(Diag(n.T)), RcvNodeMat(Diag(n.T))),
   \* 348-358: row k without its diagonal cell, column k without it
   NodeStateCount_bg |-> MatAdd(SrcNodeMat(MatSub(SumAxis2(n.T), Diag(n.T))),
                                RcvNodeMat(MatSub(SumAxis1(n.T), Diag(n.T))))]

calc_local_params_Naive(lp0) ==
  naiveFields(naiveNormalised(naiveCells(lp0))) @@ lp0

\* ----------------------------------------- initLPFromResp (179-208)
\* the dict after the call; it is the caller's dict, updated in place.
\* raised: KeyError when a two-dimensional resp comes without resp_bg (188).
\* 202-207: resp, NodeStateCount and N_fg written into the dict
withCounts(lp0, R, NSCbg, NSCfg) ==
  [resp |-> Arr(2, R),
   NodeStateCount |-> MatAdd(NSCbg, NSCfg),
   N_fg |-> N_fg(NSCfg)] @@ lp0

\* 194-201: NodeStateCount_bg from the off-diagonal cells of a
\* three-dimensional resp
NodeStateCount_bg3(T) ==
  MatAdd(SrcNodeMat(MatSub(SumAxis2(T), Diag(T))),
         RcvNodeMat(MatSub(SumAxis1(T), Diag(T))))

\* 190: NodeStateCount_bg = 0.0 for a two-dimensional resp
ZeroMat(M) == Mat(Len(M), Len(M[1]), LAMBDA i, j : Zero)

initLPFromResp(lp0) ==
  IF lp0.resp.ndim = 2
  THEN IF "resp_bg" \notin DOMAIN lp0
       THEN [raised |-> "KeyError", lp |-> lp0]
       ELSE [raised |-> "none",
             lp |-> withCounts(lp0, lp0.resp.a,
                               ZeroMat(NodeStateCount_fg(lp0.resp.a)),
                               NodeStateCount_fg(lp0.resp.a))]
  ELSE [raised |-> "none",
        lp |-> withCounts(lp0, Diag(lp0.resp.a),
                          NodeStateCount_bg3(lp0.resp.a),
                          NodeStateCount_fg(Diag(lp0.resp.a)))]

\* ----------------------------------- get_global_suff_stats (211-245)
\* the guard of line 227: LP['resp'].sum(axis=1).min() is close to 1.  By
\* then resp has two dimensions in every dict the model passes.
coversAllEdges(lp) == AllCloseInt(RMinSeq(RowSum(lp.resp.a)), 1)

\* the assert of line 230: np.allclose(SS.NodeStateCount, Data.nEdges * 2)
\* compares every entry of the V x K matrix with 2E
countCheck(NSC) ==
  \A v \in DOMAIN NSC : \A k \in DOMAIN NSC[v] : AllCloseInt(NSC[v][k], 2 * nEdges)

\* a bag whose three ELBO terms are all tied to doPrecompEntropy
makeSSGated(lp, doPrecompEntropy) ==
  [fields |-> [NodeStateCount |-> lp.NodeStateCount,
               N |-> lp.N_fg,
               scaleFactor |-> nEdges],
   ELBOTerms |->
     IF doPrecompEntropy = 1
     THEN [Ldata_bg |-> lp.Ldata_bg,
           Hresp |-> lp.Lentropy_fg, Hresp_bg |-> lp.Lentropy_bg]
     ELSE <<>>]

\* SuffStatBag: the fields set with setField and the terms set with
\* setELBOTerm
makeSS(lp, doPrecompEntropy) ==
  [fields |-> [NodeStateCount |-> lp.NodeStateCount,
               N |-> lp.N_fg,
               scaleFactor |-> nEdges],
   ELBOTerms |->
     (IF "Ldata_bg" \in DOMAIN lp THEN [Ldata_bg |-> lp.Ldata_bg] ELSE <<>>)
     @@ (IF doPrecompEntropy = 1
         THEN [Hresp |-> lp.Lentropy_fg, Hresp_bg |-> lp.Lentropy_bg]
         ELSE <<>>)]

\* 226-243, after the dict has its NodeStateCount
suffStatsOf(init, doPrecompEntropy) ==
  IF init.raised # "none"
  THEN [raised |-> init.raised, lp |-> init.lp, ss |-> <<>>]
  ELSE IF coversAllEdges(init.lp) /\ ~countCheck(init.lp.NodeStateCount)
  THEN [raised |-> "AssertionError", lp |-> init.lp, ss |-> <<>>]
  ELSE IF doPrecompEntropy = 1 /\ "Lentropy_fg" \notin DOMAIN init.lp
  THEN [raised |-> "KeyError", lp |-> init.lp, ss |-> <<>>]
  ELSE [raised |-> "none", lp |-> init.lp,
        ss |-> <<makeSS(init.lp, doPrecompEntropy)>>]

get_global_suff_stats(lp0, doPrecompEntropy) ==
  suffStatsOf(IF "NodeStateCount" \notin DOMAIN lp0
              THEN initLPFromResp(lp0)
              ELSE [raised |-> "none", lp |-> lp0], doPrecompEntropy)

\* -------------------------------------------- calc_evidence (248-283)
\* prior concentration set by set_prior (39-41); an integer, so that gammaln
\* is the log of a factorial
alpha == 1

RECURSIVE LogFactorial(_)
LogFactorial(n) == IF n <= 1 THEN LZero ELSE LAdd(LogInt(n), LogFactorial(n - 1))
\* gammaln on the positive integers
gammaln(n) == LogFactorial(n - 1)

\* FiniteMMSB.L_alloc_no_slack: the Dirichlet normalisers of prior and
\* posterior
L_alloc_no_slack ==
  LSumSeq(Vec(NumNodes, LAMBDA v :
     LAdd(LSub(gammaln(K * alpha), LScale(FromInt(K), gammaln(alpha))),
          LSub(LSumSeq(Vec(K, LAMBDA k : gammaln(theta[v][k]))),
               gammaln(SumInts(theta[v]))))))

\* FiniteMMSB.L_slack: sum of (NodeStateCount + alpha - theta) * ElogPi
L_slack(ss) ==
  LSumSeq(Vec(NumNodes, LAMBDA v :
    LSumSeq(Vec(K, LAMBDA k :
      LScale(RAdd(ss.fields.NodeStateCount[v][k],
                  FromInt(alpha - theta[v][k])),
             Log(E_logPi[v][k]))))))

\* L_entropy (274-283)
L_entropy(lp) == LAdd(LSumSeq(lp.Lentropy_fg), lp.Lentropy_bg)

\* the cached foreground entropy alone
cachedFgOnly(ss) == LSumSeq(ss.ELBOTerms.Hresp)

\* the entropy term read from the cached ELBO terms (259-260)
cachedEntropy(ss) == LAdd(LSumSeq(ss.ELBOTerms.Hresp), ss.ELBOTerms.Hresp_bg)

calc_evidence(ss, lp) ==
  LAdd(LAdd(LAdd(L_alloc_no_slack,
                 IF "Hresp" \in DOMAIN ss.ELBOTerms
                 THEN cachedEntropy(ss)
                 ELSE L_entropy(lp)),
            L_slack(ss)),
       IF "Ldata_bg" \in DOMAIN ss.ELBOTerms
       THEN ss.ELBOTerms.Ldata_bg
       ELSE lp.Ldata_bg)

\* ------------------------------------------------------------ actions
\* The caller: the local step, then the oracle on a dict of its own, then
\* sufficient statistics from one of the three dicts (with and without
\* cached entropies), then the evidence from the statistics of the local
\* step.  A call that raises ends the run.
Dicts == {"LP", "LPnaive", "LPresp"}
DictOf(w) == IF w = "LP" THEN LP ELSE IF w = "LPnaive" THEN LPnaive ELSE LPresp

CalcLocalParams ==
  /\ pc = "start"
  /\ \E r \in {calc_local_params(LP)} :
       /\ LP' = r.lp
       /\ err' = IF r.raised THEN "AssertionError" ELSE "none"
       /\ pc' = IF r.raised THEN "failed" ELSE "local"
  /\ UNCHANGED <<K, theta, epsilon, Data, LPnaive, LPresp, SS, ssOf, evid>>

CalcLocalParamsNaive ==
  /\ pc = "local"
  /\ LPnaive' = calc_local_params_Naive(LPnaive)
  /\ pc' = "naive"
  /\ UNCHANGED <<K, theta, epsilon, Data, LP, LPresp, SS, ssOf, evid, err>>

GetGlobalSuffStats(w, doPrecompEntropy) ==
  /\ pc \in {"naive", "stats"}
  /\ ssOf \in {"none", w}
  /\ SS[doPrecompEntropy] = <<>>
  /\ \E r \in {get_global_suff_stats(DictOf(w), doPrecompEntropy)} :
       /\ LP' = IF w = "LP" THEN r.lp ELSE LP
       /\ LPnaive' = IF w = "LPnaive" THEN r.lp ELSE LPnaive
       /\ LPresp' = IF w = "LPresp" THEN r.lp ELSE LPresp
       /\ SS' = [SS EXCEPT ![doPrecompEntropy] = r.ss]
       /\ err' = r.raised
       /\ pc' = IF r.raised = "none" THEN "stats" ELSE "failed"
  /\ ssOf' = w
  /\ UNCHANGED <<K, theta, epsilon, Data, evid>>

CalcEvidence(f) ==
  /\ pc = "stats"
  /\ ssOf = "LP"
  /\ SS[f] # <<>>
  /\ evid[f] = <<>>
  /\ evid' = [evid EXCEPT ![f] = <<calc_evidence(SS[f][1], LP)>>]
  /\ UNCHANGED <<K, theta, epsilon, Data, LP, LPnaive, LPresp, SS, ssOf, err, pc>>

\* a dict built by the caller from hard assignments: edge e wholly in
\* community 1 + (e - 1) mod K, no background mass
HardResp(n, K0) ==
  [resp |-> Arr(2, Mat(n, K0, LAMBDA e, k :
                         IF k = 1 + ((e - 1) % K0) THEN One ELSE Zero)),
   resp_bg |-> Vec(n, LAMBDA e : Zero)]

Init ==
  /\ K \in 1..MaxK
  /\ theta \in ThetaInputs(K)
  /\ epsilon \in EpsilonInputs
  /\ \E n \in 1..MaxE : \E g \in EdgeInputs : \E es \in {EdgeList(g, n)} :
       /\ Data = [edges |-> [e \in 1..n |-> <<es[e].s, es[e].t>>],
                  X |-> [e \in 1..n |-> es[e].x]]
       /\ LP = [E_log_soft_ev |-> [e \in 1..n |-> EvRow(es[e].ev, K)]]
       /\ LPnaive = [E_log_soft_ev |-> [e \in 1..n |-> EvRow(es[e].ev, K)]]
       /\ LPresp = HardResp(n, K)
  /\ SS = [f \in {0, 1} |-> <<>>]
  /\ ssOf = "none"
  /\ evid = [f \in {0, 1} |-> <<>>]
  /\ err = "none"
  /\ pc = "start"

Next ==
  \/ CalcLocalParams
  \/ CalcLocalParamsNaive
  \/ \E w \in Dicts : \E f \in {0, 1} : GetGlobalSuffStats(w, f)
  \/ \E f \in {0, 1} : CalcEvidence(f)

Spec == Init /\ [][Next]_vars

\* ------------------------------------------------------------- claims
\* calc_local_params returned: Lentropy_bg is the last field it writes (172)
Returned == "Lentropy_bg" \in DOMAIN LP

\* both local steps have returned and nothing has touched their dicts since
BothReturned == pc = "naive"

\* the sum of the off-diagonal cells of edge e of an E x K x K tensor
OffDiag(T, e) ==
  RSumSeq(Vec(Len(T[e]), LAMBDA j :
    RSumSeq(Vec(Len(T[e]), LAMBDA k : IF j = k THEN Zero ELSE T[e][j][k]))))

\* by how much the entries of edge e in LP exceed the oracle's diagonal
FloorExcess(e) ==
  RSumSeq(Vec(K, LAMBDA k : RSub(LP.resp.a[e][k], LPnaive.resp.a[e][k][k])))

\* -sum_e sum_{j # k} r[e,j,k] log r[e,j,k] over the oracle's tensor
NaiveOffDiagEntropy ==
  LNeg(LSumSeq(Vec(nEdges, LAMBDA e :
    LSumSeq(Vec(K, LAMBDA j :
      LSumSeq(Vec(K, LAMBDA k :
        IF j = k THEN LZero
        ELSE LScale(LPnaive.resp.a[e][j][k], Log(LPnaive.resp.a[e][j][k])))))))))

\* some edge has a normaliser of exactly zero
ZeroNorm == \E e \in Edges : localsNorm(localsExp(LP)).Z[e] = Zero

C5_Original ==
  (ssOf # "none" /\ coversAllEdges(DictOf(ssOf))) => err # "AssertionError"

\* C6: with bags built from the same LP with and without cached entropies,
\* calc_evidence returns the same value, Lalloc + Lentropy + Lslack + Ldata_bg.
C6_PathEquivalence ==
  (evid[0] # <<>> /\ evid[1] # <<>>) =>
    /\ evid[0] = evid[1]
    /\ "Hresp" \in DOMAIN SS[1][1].ELBOTerms
    /\ "Hresp" \notin DOMAIN SS[0][1].ELBOTerms
    /\ evid[1][1] = LAdd(LAdd(LAdd(L_alloc_no_slack, L_entropy(LP)),
                              L_slack(SS[1][1])),
                         LP.Ldata_bg)

\* the evidence was computed on both paths, with a background entropy that
\* is not zero
C6_Witness ==
  /\ evid[0] # <<>>
  /\ evid[1] # <<>>
  /\ LP.Lentropy_bg # LZero
  /\ ~LIsNaN(evid[0][1])

\* C7 as stated: N_fg[k] = sum_e resp[e][k] in every dict that holds N_fg.
C7_Original ==
  \A w \in Dicts :
    "N_fg" \in DOMAIN DictOf(w) =>
      DictOf(w).N_fg = ColSum(DictOf(w).resp.a)

\* C7, amended: N_fg[k] = 2 * sum_e resp[e][k] in every dict that holds N_fg
\* (each edge counts at its source and at its receiver), and the field N of a
\* bag is the N_fg of the dict it was built from.
C7_TwicePerEdge ==
  /\ \A w \in Dicts :
       "N_fg" \in DOMAIN DictOf(w) =>
         \A k \in 1..K :
           DictOf(w).N_fg[k] =
             RMul(FromInt(2), ColSum(DictOf(w).resp.a)[k])
  /\ \A f \in {0, 1} :
       SS[f] # <<>> => SS[f][1].fields.N = DictOf(ssOf).N_fg

\* N_fg written by calc_local_params and by initLPFromResp, and a bag built
\* from the latter
C7_Witness ==
  /\ Returned
  /\ ssOf = "LPnaive"
  /\ SS[0] # <<>>
  /\ \E k \in 1..K : RLess(Zero, LPnaive.N_fg[k])

\* C8 as stated: a returned bag carries NodeStateCount, N and scaleFactor;
\* Hresp, Hresp_bg and Ldata_bg are all present when doPrecompEntropy is set
\* and all absent when it is not.
C8_Original ==
  \A f \in {0, 1} :
    SS[f] # <<>> =>
      /\ DOMAIN SS[f][1].fields = {"NodeStateCount", "N", "scaleFactor"}
      /\ f = 1 => {"Hresp", "Hresp_bg", "Ldata_bg"} \subseteq DOMAIN SS[f][1].ELBOTerms
      /\ f = 0 => DOMAIN SS[f][1].ELBOTerms = {}

\* C8, amended: a returned bag carries NodeStateCount, N = N_fg and
\* scaleFactor = E; Hresp = Lentropy_fg and Hresp_bg = Lentropy_bg are present
\* exactly when doPrecompEntropy is set; Ldata_bg is present exactly when the
\* dict holds it, whatever doPrecompEntropy is.
C8_BagContents ==
  \A f \in {0, 1} :
    SS[f] # <<>> =>
      /\ DOMAIN SS[f][1].fields = {"NodeStateCount", "N", "scaleFactor"}
      /\ SS[f][1].fields.NodeStateCount = DictOf(ssOf).NodeStateCount
      /\ SS[f][1].fields.N = DictOf(ssOf).N_fg
      /\ SS[f][1].fields.scaleFactor = nEdges
      /\ "Hresp" \in DOMAIN SS[f][1].ELBOTerms <=> f = 1
      /\ "Hresp_bg" \in DOMAIN SS[f][1].ELBOTerms <=> f = 1
      /\ f = 1 => /\ SS[f][1].ELBOTerms.Hresp = DictOf(ssOf).Lentropy_fg
                  /\ SS[f][1].ELBOTerms.Hresp_bg = DictOf(ssOf).Lentropy_bg
      /\ "Ldata_bg" \in DOMAIN SS[f][1].ELBOTerms
           <=> "Ldata_bg" \in DOMAIN DictOf(ssOf)
      /\ "Ldata_bg" \in DOMAIN DictOf(ssOf)
           => SS[f][1].ELBOTerms.Ldata_bg = DictOf(ssOf).Ldata_bg

\* a bag built without doPrecompEntropy that holds Ldata_bg
C8_Witness ==
  /\ SS[0] # <<>>
  /\ "Ldata_bg" \in DOMAIN SS[0][1].ELBOTerms
  /\ "Hresp" \notin DOMAIN SS[0][1].ELBOTerms

\* C9 as stated: once the local steps are done, no step (get_global_suff_stats
\* or calc_evidence) changes a dict, Data, theta or epsilon.
C9_Original ==
  [][(pc = "naive" \/ pc = "stats") =>
       (LP' = LP /\ LPnaive' = LPnaive /\ LPresp' = LPresp /\
        Data' = Data /\ theta' = theta /\ epsilon' = epsilon)]_vars

\* C10: when some normaliser is exactly zero, calc_local_params raises and
\* returns no LP.
C10_ZeroNormRaises ==
  (pc # "start" /\ ZeroNorm) =>
    /\ pc = "failed"
    /\ err = "AssertionError"
    /\ ssOf = "none"
    /\ ~Returned

\* the call was made with a zero normaliser, and raised
C10_Witness ==
  /\ pc = "failed"
  /\ ssOf = "none"
  /\ ZeroNorm
  /\ HasNaN(LP.resp.a)
====
